---- MODULE Spec2Model ----
(***************************************************************************)
(* Model of wa1d7/discrete_proj: the random directed graph generator and   *)
(* the representation converters of graph.py, and the two variants of      *)
(* Kahn's algorithm of kan.py.                                             *)
(*                                                                         *)
(* Python values are encoded as follows.                                   *)
(*   dict {k: list}   a sequence of <<k, list>> items in insertion order   *)
(*   list of edges     a sequence of entries                               *)
(*   bare target v     the 1-tuple <<v>>                                   *)
(*   tuple (v, w)      the 2-tuple <<v, w>>                                *)
(*   matrix            a function on 0..rows-1 whose values are functions  *)
(*                     on 0..len(row)-1                                    *)
(*   None / an order   [isNone |-> TRUE/FALSE, order |-> sequence]         *)
(***************************************************************************)
EXTENDS Integers, Sequences, FiniteSets, TLC

VARIABLES
  pc,            \* where the modelled call stands
  adj, mat,      \* the representation handed to a sorter or a converter
  topo_list,     \* what kahn_list returned
  topo_mat,      \* what kahn_matrix returned
  n, arg_density, weighted, weight_range,   \* arguments of erdos_renyi_directed
  density, m, edges, adj_list, adj_matrix,  \* its locals
  raised,        \* the exception that ended the call, "" if none
  out_matrix,    \* what list_to_matrix produced
  out_list,      \* what matrix_to_list produced
  arg_adj, arg_mat,      \* the sorters' arguments as they were before the calls
  st_list, st_mat,       \* indegree, q and topo of the running kahn_list / kahn_matrix
  again_list, again_mat  \* what a second call of each sorter returned

sortVars == <<adj, mat, topo_list, topo_mat>>

genVars == <<n, arg_density, weighted, weight_range, density, m, edges,
             adj_list, adj_matrix, raised>>

convVars == <<out_matrix, out_list>>

stepVars == <<arg_adj, arg_mat, st_list, st_mat, again_list, again_mat>>

vars == <<pc, sortVars, genVars, convVars, stepVars>>

\* ---------------------------------------------------------------- bounds
\* SpecSort: at most MaxN vertices and MaxEntries list entries in all.
MaxN == 3
MaxEntries == 4
\* SpecMat: every MatN x MatN matrix and smaller.
MatN == 3
\* SpecGen: at most GenN vertices and an edge target of at most MaxM.
GenN == 3
MaxM == 3
\* SpecConv: vertex counts, indices, row counts up to ConvN; rows one longer.
ConvN == 2
\* SpecStep: at most StepN vertices and StepEntries list entries in all.
StepN == 3
StepEntries == 3

\* ------------------------------------------------------- python helpers
Range(k) == 0 .. (k - 1)

None == [isNone |-> TRUE, order |-> <<>>]

Some(t) == [isNone |-> FALSE, order |-> t]

IsTuple(entry) == Len(entry) = 2

DictKeys(d) == [i \in 1 .. Len(d) |-> d[i][1]]

KeySet(d) == {d[i][1] : i \in 1 .. Len(d)}

DictGet(d, k) == d[CHOOSE i \in 1 .. Len(d) : d[i][1] = k][2]

MatLen(a) == Cardinality(DOMAIN a)

\* Python sequence indexing: -len <= i < len is valid, a negative i counts from the end.
IndexOk(len, i) == -len <= i /\ i < len

Index(len, i) == IF i < 0 THEN len + i ELSE i

Ok(v) == [raised |-> "", value |-> v]

Raise(e) == [raised |-> e, value |-> <<>>]

\* ------------------------------------------------------------ graph.py
\* A density is the exact rational <<numerator, denominator>>, denominator > 0.
\* The normalisation that also takes a density of exactly 1 for a percentage.
NormalizeFromOne(d) == IF d[1] >= d[2] THEN <<d[1], d[2] * 100>> ELSE d

Normalize(d) == IF d[1] > d[2] THEN <<d[1], d[2] * 100>> ELSE d

DensityOk(d) == 0 <= d[1] /\ d[1] <= d[2]

\* Python's round() of p/q, q > 0: to the nearest integer, a tie to the even one.
Round(p, q) ==
  LET f == p \div q
      r == p % q
  IN IF 2 * r < q THEN f
     ELSE IF 2 * r > q THEN f + 1
     ELSE IF f % 2 = 0 THEN f ELSE f + 1

EdgeTarget(k, d) == Round(d[1] * (k * (k - 1)), d[2])

\* The candidate pairs the sampling loop skips with continue.
\* The test that keeps only the pairs with u < v.
RejectedUnlessAscending(u, v, es) == u >= v \/ <<u, v>> \in es

RejectedDuplicateOnly(u, v, es) == <<u, v>> \in es

Rejected(u, v, es) == u = v \/ <<u, v>> \in es

EmptyLists(k) == [i \in 1 .. k |-> <<i - 1, <<>>>>]

\* One iteration of the build loop: edge e with the weight w drawn for it.
BuildEdge(r, e, isWeighted, w) ==
  [list |-> [r.list EXCEPT ![e[1] + 1][2] =
               Append(@, IF isWeighted THEN <<e[2], w>> ELSE <<e[2]>>)],
   matrix |-> [r.matrix EXCEPT ![e[1]][e[2]] = IF isWeighted THEN w ELSE 1]]

RECURSIVE BuildAll(_, _, _, _)
BuildAll(r, order, isWeighted, ws) ==
  IF order = <<>> THEN r
  ELSE BuildAll(BuildEdge(r, Head(order), isWeighted, ws[Head(order)]),
                Tail(order), isWeighted, ws)

ZeroMatrix(k) == [u \in Range(k) |-> [v \in Range(k) |-> 0]]

\* mat[u][v] = x on a k x k matrix held in r.value; IndexError past either axis.
SetCell(r, k, u, v, x) ==
  IF r.raised # "" THEN r
  ELSE IF ~IndexOk(k, u) \/ ~IndexOk(k, v) THEN Raise("IndexError")
  ELSE Ok([r.value EXCEPT ![Index(k, u)][Index(k, v)] = x])

RECURSIVE FillWeighted(_, _, _, _)
FillWeighted(r, k, u, neighs) ==
  IF r.raised # "" \/ neighs = <<>> THEN r
  ELSE IF ~IsTuple(Head(neighs)) THEN Raise("TypeError")
  ELSE FillWeighted(SetCell(r, k, u, Head(neighs)[1], Head(neighs)[2]), k, u, Tail(neighs))

RECURSIVE FillUnweighted(_, _, _, _)
FillUnweighted(r, k, u, neighs) ==
  IF r.raised # "" \/ neighs = <<>> THEN r
  ELSE IF ~IndexOk(k, u) THEN Raise("IndexError")
  ELSE IF IsTuple(Head(neighs)) THEN Raise("TypeError")
  ELSE FillUnweighted(SetCell(r, k, u, Head(neighs)[1], 1), k, u, Tail(neighs))

FillRow(r, k, u, neighs) ==
  IF Len(neighs) > 0 /\ IsTuple(neighs[1])
  THEN FillWeighted(r, k, u, neighs)
  ELSE FillUnweighted(r, k, u, neighs)

RECURSIVE FillItems(_, _, _)
FillItems(r, k, items) ==
  IF r.raised # "" \/ items = <<>> THEN r
  ELSE FillItems(FillRow(r, k, Head(items)[1], Head(items)[2]), k, Tail(items))

list_to_matrix(a, k) == FillItems(Ok(ZeroMatrix(k)), k, a)

\* The targets of a row collected in descending column order.
RowTargetsDescending(row, k) ==
  SelectSeq([i \in 1 .. k |-> <<k - i>>], LAMBDA e : row[e[1]] # 0)

RowTargets(row, k) ==
  SelectSeq([i \in 1 .. k |-> <<i - 1>>], LAMBDA e : row[e[1]] # 0)

matrix_to_list(a) ==
  LET k == MatLen(a)
  IN IF \E u \in Range(k) : MatLen(a[u]) < k
     THEN Raise("IndexError")
     ELSE Ok([i \in 1 .. k |-> <<i - 1, RowTargets(a[i - 1], k)>>])

\* ------------------------------------------------------------ kan.py
\* entry[0] of a tuple, the entry itself otherwise: element 1 of either encoding.
EntryTarget(entry) == IF IsTuple(entry) THEN entry[1] ELSE entry[1]

\* The indegree count that skips the neighbours of the last key of the dict.
ListIndegreeSkipLast(a) ==
  [v \in KeySet(a) |->
     Cardinality({p \in UNION {{<<i, j>> : j \in 1 .. Len(a[i][2])} : i \in 1 .. Len(a) - 1} :
                    EntryTarget(a[p[1]][2][p[2]]) = v})]

ListIndegree(a) ==
  [v \in KeySet(a) |->
     Cardinality({p \in UNION {{<<i, j>> : j \in 1 .. Len(a[i][2])} : i \in 1 .. Len(a)} :
                    EntryTarget(a[p[1]][2][p[2]]) = v})]

\* The decrement that enqueues w one step early, at indegree 1.
ListRelaxOneEarly(st, w) ==
  LET d == [st.indegree EXCEPT ![w] = @ - 1]
  IN [st EXCEPT !.indegree = d,
                !.q = IF d[w] = 1 THEN Append(@, w) ELSE @]

ListRelaxOne(st, w) ==
  LET d == [st.indegree EXCEPT ![w] = @ - 1]
  IN [st EXCEPT !.indegree = d,
                !.q = IF d[w] = 0 THEN Append(@, w) ELSE @]

RECURSIVE ListRelax(_, _)
ListRelax(st, neighs) ==
  IF neighs = <<>> THEN st
  ELSE ListRelax(ListRelaxOne(st, EntryTarget(Head(neighs))), Tail(neighs))

ListInitState(a) ==
  LET indegree == ListIndegree(a)
  IN [indegree |-> indegree,
      q |-> SelectSeq(DictKeys(a), LAMBDA v : indegree[v] = 0),
      topo |-> <<>>]

ListIter(a, st) ==
  LET v == Head(st.q)
  IN ListRelax([st EXCEPT !.q = Tail(@), !.topo = Append(@, v)], DictGet(a, v))

RECURSIVE ListLoop(_, _)
ListLoop(a, st) == IF st.q = <<>> THEN st ELSE ListLoop(a, ListIter(a, st))

ListResult(a, st) == IF Len(st.topo) # Len(a) THEN None ELSE Some(st.topo)

kahn_list(a) == ListResult(a, ListLoop(a, ListInitState(a)))

\* The indegree summed over the row of v instead of its column.
MatrixIndegreeByRow(a) ==
  LET k == MatLen(a)
  IN [v \in Range(k) |-> Cardinality({u \in Range(k) : a[v][u] # 0})]

MatrixIndegree(a) ==
  LET k == MatLen(a)
  IN [v \in Range(k) |-> Cardinality({u \in Range(k) : a[u][v] # 0})]

MatrixRelaxOne(st, w) ==
  LET d == [st.indegree EXCEPT ![w] = @ - 1]
  IN [st EXCEPT !.indegree = d,
                !.q = IF d[w] = 0 THEN Append(@, w) ELSE @]

RECURSIVE MatrixRelax(_, _, _, _)
MatrixRelax(a, st, v, w) ==
  IF w >= MatLen(a) THEN st
  ELSE MatrixRelax(a, IF a[v][w] # 0 THEN MatrixRelaxOne(st, w) ELSE st, v, w + 1)

MatrixInitState(a) ==
  LET k == MatLen(a)
      indegree == MatrixIndegree(a)
  IN [indegree |-> indegree,
      q |-> SelectSeq([i \in 1 .. k |-> i - 1], LAMBDA v : indegree[v] = 0),
      topo |-> <<>>]

MatrixIter(a, st) ==
  LET v == Head(st.q)
  IN MatrixRelax(a, [st EXCEPT !.q = Tail(@), !.topo = Append(@, v)], v, 0)

RECURSIVE MatrixLoop(_, _)
MatrixLoop(a, st) == IF st.q = <<>> THEN st ELSE MatrixLoop(a, MatrixIter(a, st))

\* The completeness test that lets a short output through.
MatrixResultShort(a, st) == IF Len(st.topo) > MatLen(a) THEN None ELSE Some(st.topo)

MatrixResult(a, st) == IF Len(st.topo) # MatLen(a) THEN None ELSE Some(st.topo)

kahn_matrix(a) == MatrixResult(a, MatrixLoop(a, MatrixInitState(a)))

\* ------------------------------------------------- callers of the sorters
\* A caller builds an adjacency list by hand (spec.md section 3, "direct
\* construction of a representation by a caller"): the keys 0..k-1 inserted in
\* ascending or in descending order, then the entries appended one at a time,
\* all bare targets or all (target, weight) tuples.
Ascending(k) == [i \in 1 .. k |-> <<i - 1, <<>>>>]

Descending(k) == [i \in 1 .. k |-> <<k - i, <<>>>>]

EntryCount(d) == Cardinality(UNION {{<<i, j>> : j \in 1 .. Len(d[i][2])} : i \in 1 .. Len(d)})

AllBare(d) == \A i \in 1 .. Len(d) : \A j \in 1 .. Len(d[i][2]) : ~IsTuple(d[i][2][j])

AllTuples(d) == \A i \in 1 .. Len(d) : \A j \in 1 .. Len(d[i][2]) : IsTuple(d[i][2][j])

GenIdle ==
  /\ n = 0
  /\ arg_density = <<0, 1>>
  /\ weighted = FALSE
  /\ weight_range = <<1, 10>>
  /\ density = <<0, 1>>
  /\ m = 0
  /\ edges = {}
  /\ adj_list = <<>>
  /\ adj_matrix = <<>>
  /\ raised = ""

ConvIdle ==
  /\ out_matrix = Ok(<<>>)
  /\ out_list = Ok(<<>>)

IdleState == [indegree |-> <<>>, q |-> <<>>, topo |-> <<>>]

StepIdle ==
  /\ arg_adj = <<>>
  /\ arg_mat = <<>>
  /\ st_list = IdleState
  /\ st_mat = IdleState
  /\ again_list = None
  /\ again_mat = None

InitSort ==
  /\ pc = "input"
  /\ adj \in UNION {{Ascending(k), Descending(k)} : k \in 0 .. MaxN}
  /\ mat = <<>>
  /\ topo_list = None
  /\ topo_mat = None
  /\ GenIdle
  /\ ConvIdle
  /\ StepIdle

\* A tuple entry (v, w) is given the nonzero weight u + v + 1.
AddEntry ==
  /\ pc = "input"
  /\ EntryCount(adj) < MaxEntries
  /\ \E i \in 1 .. Len(adj), v \in KeySet(adj), tup \in BOOLEAN :
       /\ IF tup THEN AllTuples(adj) ELSE AllBare(adj)
       /\ adj' = [adj EXCEPT ![i][2] =
                    Append(@, IF tup THEN <<v, adj[i][1] + v + 1>> ELSE <<v>>)]
  /\ UNCHANGED <<pc, mat, topo_list, topo_mat, genVars, convVars>>
  /\ UNCHANGED stepVars

\* Both variants run on the same graph: the matrix is the list's conversion.
SortBoth ==
  /\ pc = "input"
  /\ pc' = "sorted"
  /\ mat' = list_to_matrix(adj, Len(adj)).value
  /\ topo_list' = kahn_list(adj)
  /\ topo_mat' = kahn_matrix(mat')
  /\ UNCHANGED <<adj, genVars, convVars>>
  /\ UNCHANGED stepVars

NextSort == AddEntry \/ SortBoth

SpecSort == InitSort /\ [][NextSort]_vars

\* ----------------------------------------- the sorters, one iteration a step
\* What each function leaves in the object it was handed.  kan.py and the
\* converters of graph.py only read their argument: indegree, q, topo and
\* the converted representation are fresh objects.
\* The loop body that removes the edges of the dequeued vertex from adj.
ListIterArgConsumed(a, st) ==
  [i \in 1 .. Len(a) |-> IF a[i][1] = Head(st.q) THEN <<a[i][1], <<>>>> ELSE a[i]]

ListIterArg(a, st) == a

MatrixIterArg(a, st) == a

ListToMatrixArg(a, k) == a

MatrixToListArg(a) == a

InitStep ==
  /\ pc = "input"
  /\ adj \in UNION {{Ascending(k), Descending(k)} : k \in 0 .. StepN}
  /\ mat = <<>>
  /\ topo_list = None
  /\ topo_mat = None
  /\ GenIdle
  /\ ConvIdle
  /\ StepIdle

StepAddEntry ==
  /\ pc = "input"
  /\ EntryCount(adj) < StepEntries
  /\ \E i \in 1 .. Len(adj), v \in KeySet(adj), tup \in BOOLEAN :
       /\ IF tup THEN AllTuples(adj) ELSE AllBare(adj)
       /\ adj' = [adj EXCEPT ![i][2] =
                    Append(@, IF tup THEN <<v, adj[i][1] + v + 1>> ELSE <<v>>)]
  /\ UNCHANGED <<pc, mat, topo_list, topo_mat, genVars, convVars, stepVars>>

\* kan.py 15-26: kahn_list is entered; the matrix of the same graph is kept
\* for the matrix variant.
ListStart ==
  /\ pc = "input"
  /\ pc' = "list_loop"
  /\ arg_adj' = adj
  /\ mat' = list_to_matrix(adj, Len(adj)).value
  /\ arg_mat' = mat'
  /\ st_list' = ListInitState(adj)
  /\ UNCHANGED <<adj, topo_list, topo_mat, st_mat, again_list, again_mat, genVars, convVars>>

\* kan.py 28-35: one iteration of while q.
ListStep ==
  /\ pc = "list_loop"
  /\ st_list.q # <<>>
  /\ st_list' = ListIter(adj, st_list)
  /\ adj' = ListIterArg(adj, st_list)
  /\ UNCHANGED <<pc, mat, topo_list, topo_mat, arg_adj, arg_mat, st_mat,
                 again_list, again_mat, genVars, convVars>>

\* kan.py 28, 37-39: the queue is empty, kahn_list returns; kan.py 47-58:
\* kahn_matrix is entered.
ListReturn ==
  /\ pc = "list_loop"
  /\ st_list.q = <<>>
  /\ topo_list' = ListResult(adj, st_list)
  /\ st_mat' = MatrixInitState(mat)
  /\ pc' = "matrix_loop"
  /\ UNCHANGED <<adj, mat, topo_mat, arg_adj, arg_mat, st_list,
                 again_list, again_mat, genVars, convVars>>

\* kan.py 60-68: one iteration of while q.
MatrixStep ==
  /\ pc = "matrix_loop"
  /\ st_mat.q # <<>>
  /\ st_mat' = MatrixIter(mat, st_mat)
  /\ mat' = MatrixIterArg(mat, st_mat)
  /\ UNCHANGED <<pc, adj, topo_list, topo_mat, arg_adj, arg_mat, st_list,
                 again_list, again_mat, genVars, convVars>>

\* kan.py 60, 70-72: the queue is empty, kahn_matrix returns.
MatrixReturn ==
  /\ pc = "matrix_loop"
  /\ st_mat.q = <<>>
  /\ topo_mat' = MatrixResult(mat, st_mat)
  /\ pc' = "sorted"
  /\ UNCHANGED <<adj, mat, topo_list, arg_adj, arg_mat, st_list, st_mat,
                 again_list, again_mat, genVars, convVars>>

\* Both sorters are called a second time on the objects the first calls left.
SortAgain ==
  /\ pc = "sorted"
  /\ pc' = "resorted"
  /\ again_list' = kahn_list(adj)
  /\ again_mat' = kahn_matrix(mat)
  /\ UNCHANGED <<sortVars, arg_adj, arg_mat, st_list, st_mat, genVars, convVars>>

\* Both converters are called on the same objects.
ConvertBoth ==
  /\ pc = "resorted"
  /\ pc' = "converted"
  /\ out_matrix' = list_to_matrix(adj, Len(adj))
  /\ out_list' = matrix_to_list(mat)
  /\ adj' = ListToMatrixArg(adj, Len(adj))
  /\ mat' = MatrixToListArg(mat)
  /\ UNCHANGED <<topo_list, topo_mat, stepVars, genVars>>

NextStep ==
  \/ StepAddEntry
  \/ ListStart
  \/ ListStep
  \/ ListReturn
  \/ MatrixStep
  \/ MatrixReturn
  \/ SortAgain
  \/ ConvertBoth

SpecStep == InitStep /\ [][NextStep]_vars

\* A caller holds a matrix and sorts it directly and through matrix_to_list.
MatWeights == {1, 7}

InitMat ==
  /\ pc = "input"
  /\ \E k \in 0 .. MatN, x \in MatWeights :
       \E cells \in SUBSET (Range(k) \X Range(k)) :
         mat = [u \in Range(k) |-> [v \in Range(k) |-> IF <<u, v>> \in cells THEN x ELSE 0]]
  /\ adj = <<>>
  /\ topo_list = None
  /\ topo_mat = None
  /\ GenIdle
  /\ ConvIdle
  /\ StepIdle

SortMatrix ==
  /\ pc = "input"
  /\ pc' = "sorted"
  /\ adj' = matrix_to_list(mat).value
  /\ topo_list' = kahn_list(adj')
  /\ topo_mat' = kahn_matrix(mat)
  /\ UNCHANGED <<mat, genVars, convVars>>
  /\ UNCHANGED stepVars

NextMat == SortMatrix

SpecMat == InitMat /\ [][NextMat]_vars

\* ------------------------------------------------- erdos_renyi_directed
Densities ==
  {<<0, 1>>, <<1, 4>>, <<1, 2>>, <<3, 4>>, <<1, 1>>, <<5, 4>>, <<-1, 4>>,
   <<20, 1>>, <<50, 1>>, <<100, 1>>, <<101, 1>>}

WeightRanges == {<<1, 2>>, <<0, 1>>, <<3, 1>>}

SortIdle ==
  /\ adj = <<>>
  /\ mat = <<>>
  /\ topo_list = None
  /\ topo_mat = None

InitGen ==
  /\ pc = "call"
  /\ n \in 0 .. GenN
  /\ arg_density \in Densities
  /\ DensityOk(Normalize(arg_density)) => EdgeTarget(n, Normalize(arg_density)) <= MaxM
  /\ weighted \in BOOLEAN
  /\ weight_range \in WeightRanges
  /\ density = arg_density
  /\ m = 0
  /\ edges = {}
  /\ adj_list = <<>>
  /\ adj_matrix = <<>>
  /\ raised = ""
  /\ SortIdle
  /\ ConvIdle
  /\ StepIdle

\* graph.py 27-32: the density check fails.
RejectDensity ==
  /\ pc = "call"
  /\ ~DensityOk(Normalize(density))
  /\ density' = Normalize(density)
  /\ raised' = "ValueError: density"
  /\ pc' = "raised"
  /\ UNCHANGED <<n, arg_density, weighted, weight_range, m, edges, adj_list, adj_matrix>>
  /\ UNCHANGED <<sortVars, convVars>>
  /\ UNCHANGED stepVars

\* graph.py 27-37: the density check passes and the edge target is set.
AcceptDensity ==
  /\ pc = "call"
  /\ DensityOk(Normalize(density))
  /\ density' = Normalize(density)
  /\ m' = EdgeTarget(n, density')
  /\ edges' = {}
  /\ pc' = "sample"
  /\ UNCHANGED <<n, arg_density, weighted, weight_range, adj_list, adj_matrix, raised>>
  /\ UNCHANGED <<sortVars, convVars>>
  /\ UNCHANGED stepVars

\* graph.py 39-46: one iteration of the rejection-sampling loop.
Sample ==
  /\ pc = "sample"
  /\ Cardinality(edges) < m
  /\ \E u \in Range(n), v \in Range(n) :
       edges' = IF Rejected(u, v, edges) THEN edges ELSE edges \cup {<<u, v>>}
  /\ UNCHANGED <<pc, n, arg_density, weighted, weight_range, density, m,
                 adj_list, adj_matrix, raised>>
  /\ UNCHANGED <<sortVars, convVars>>
  /\ UNCHANGED stepVars

Orders(S) ==
  {o \in [1 .. Cardinality(S) -> S] : \A i, j \in 1 .. Cardinality(S) : i # j => o[i] # o[j]}

\* graph.py 39, 48-61: the loop ends and both representations are built, the
\* set iterated in some order, each weight drawn from the closed range.
Build ==
  /\ pc = "sample"
  /\ Cardinality(edges) >= m
  /\ ~(weighted /\ edges # {} /\ weight_range[1] > weight_range[2])
  /\ \E order \in Orders(edges) :
       \E ws \in [edges -> IF weighted THEN weight_range[1] .. weight_range[2] ELSE {1}] :
         LET r == BuildAll([list |-> EmptyLists(n), matrix |-> ZeroMatrix(n)],
                           order, weighted, ws)
         IN /\ adj_list' = r.list
            /\ adj_matrix' = r.matrix
  /\ pc' = "returned"
  /\ UNCHANGED <<n, arg_density, weighted, weight_range, density, m, edges, raised>>
  /\ UNCHANGED <<sortVars, convVars>>
  /\ UNCHANGED stepVars

\* graph.py 54: random.randint(a, b) raises ValueError on an empty range.
BuildRaises ==
  /\ pc = "sample"
  /\ Cardinality(edges) >= m
  /\ weighted /\ edges # {} /\ weight_range[1] > weight_range[2]
  /\ raised' = "ValueError: randint"
  /\ pc' = "raised"
  /\ UNCHANGED <<n, arg_density, weighted, weight_range, density, m, edges,
                 adj_list, adj_matrix>>
  /\ UNCHANGED <<sortVars, convVars>>
  /\ UNCHANGED stepVars

\* A caller converts the returned graph there and back.
RoundTrip ==
  /\ pc = "returned"
  /\ pc' = "converted"
  /\ out_matrix' = list_to_matrix(matrix_to_list(adj_matrix).value, n)
  /\ out_list' = matrix_to_list(list_to_matrix(adj_list, n).value)
  /\ UNCHANGED <<sortVars, genVars>>
  /\ UNCHANGED stepVars

NextGen ==
  \/ RejectDensity
  \/ AcceptDensity
  \/ Sample
  \/ Build
  \/ BuildRaises
  \/ RoundTrip

SpecGen == InitGen /\ [][NextGen]_vars

\* The call is never suspended, and the draws of random.randrange are fair: a
\* pair the loop can accept is drawn in the end (an accepting iteration is
\* the only Sample step that changes the state).
GenFairness ==
  /\ WF_vars(RejectDensity)
  /\ WF_vars(AcceptDensity)
  /\ WF_vars(Sample)
  /\ WF_vars(Build)
  /\ WF_vars(BuildRaises)

SpecGenFair == InitGen /\ [][NextGen]_vars /\ GenFairness

\* -------------------------------------------- callers of the converters
ConvIndex == -1 .. ConvN

ConvNeighs == UNION {[1 .. l -> {<<v>> : v \in ConvIndex}] : l \in 0 .. 2}

ConvLists ==
  {<<>>}
  \cup {<<<<k, l>>>> : k \in ConvIndex, l \in ConvNeighs}
  \cup {<<<<k[1], l1>>, <<k[2], l2>>>> :
          k \in {x \in ConvIndex \X ConvIndex : x[1] # x[2]},
          l1 \in ConvNeighs, l2 \in ConvNeighs}

ConvRows == UNION {[Range(l) -> {0, 1}] : l \in 0 .. ConvN + 1}

ConvMatrices == UNION {[Range(r) -> ConvRows] : r \in 0 .. ConvN}

InitConv ==
  /\ \/ /\ pc = "list_input"
        /\ adj \in ConvLists
        /\ n \in 0 .. ConvN
        /\ mat = <<>>
     \/ /\ pc = "matrix_input"
        /\ mat \in ConvMatrices
        /\ n = 0
        /\ adj = <<>>
  /\ topo_list = None
  /\ topo_mat = None
  /\ arg_density = <<0, 1>>
  /\ weighted = FALSE
  /\ weight_range = <<1, 10>>
  /\ density = <<0, 1>>
  /\ m = 0
  /\ edges = {}
  /\ adj_list = <<>>
  /\ adj_matrix = <<>>
  /\ raised = ""
  /\ ConvIdle
  /\ StepIdle

CallListToMatrix ==
  /\ pc = "list_input"
  /\ pc' = "list_converted"
  /\ out_matrix' = list_to_matrix(adj, n)
  /\ UNCHANGED <<out_list, sortVars, genVars>>
  /\ UNCHANGED stepVars

CallMatrixToList ==
  /\ pc = "matrix_input"
  /\ pc' = "matrix_converted"
  /\ out_list' = matrix_to_list(mat)
  /\ UNCHANGED <<out_matrix, sortVars, genVars>>
  /\ UNCHANGED stepVars

NextConv == CallListToMatrix \/ CallMatrixToList

SpecConv == InitConv /\ [][NextConv]_vars

\* ------------------------------------------------------ graph vocabulary
ListEdges(d) ==
  {<<d[p[1]][1], d[p[1]][2][p[2]][1]>> : p \in
     UNION {{<<i, j>> : j \in 1 .. Len(d[i][2])} : i \in 1 .. Len(d)}}

MatEdges(a) == {e \in (DOMAIN a) \X (DOMAIN a) : a[e[1]][e[2]] # 0}

\* A finite digraph has a cycle iff some non-empty vertex set has, for each of
\* its members, a predecessor inside the set.
HasCycle(V, E) ==
  \E S \in SUBSET V : S # {} /\ \A v \in S : \E u \in S : <<u, v>> \in E

Pos(t, v) == CHOOSE i \in 1 .. Len(t) : t[i] = v

IsTopoOrder(t, V, E) ==
  /\ Len(t) = Cardinality(V)
  /\ {t[i] : i \in 1 .. Len(t)} = V
  /\ \A e \in E : Pos(t, e[1]) < Pos(t, e[2])

\* ------------------------------------------------------------- claims
\* C1: whenever kahn_list or kahn_matrix returns an order, the order holds
\* every vertex exactly once and every edge (u, v) has u before v.
C1_OrderIsTopological ==
  pc = "sorted" =>
    /\ ~topo_list.isNone => IsTopoOrder(topo_list.order, KeySet(adj), ListEdges(adj))
    /\ ~topo_mat.isNone => IsTopoOrder(topo_mat.order, DOMAIN mat, MatEdges(mat))

C1_Witness ==
  /\ pc = "sorted"
  /\ Len(adj) = 3
  /\ Cardinality(ListEdges(adj)) >= 3
  /\ ~topo_list.isNone
  /\ ~topo_mat.isNone
  /\ topo_list.order # <<0, 1, 2>>

\* C2: kahn_list and kahn_matrix return None exactly when the graph has a
\* directed cycle (a self-loop included); otherwise a full order, never a
\* partial one.
C2_NoneIffCycle ==
  pc = "sorted" =>
    /\ topo_list.isNone <=> HasCycle(KeySet(adj), ListEdges(adj))
    /\ topo_mat.isNone <=> HasCycle(DOMAIN mat, MatEdges(mat))
    /\ ~topo_list.isNone => Len(topo_list.order) = Len(adj)
    /\ ~topo_mat.isNone => Len(topo_mat.order) = MatLen(mat)

C2_Witness ==
  /\ pc = "sorted"
  /\ Len(adj) = 3
  /\ topo_list.isNone
  /\ topo_mat.isNone
  /\ \A e \in ListEdges(adj) : e[1] # e[2]
  /\ \E v \in KeySet(adj) : \A u \in KeySet(adj) : <<u, v>> \notin ListEdges(adj)

\* C3: for a list and a matrix with the same edge set, the neighbours listed
\* in any order, kahn_list is None exactly when kahn_matrix is None.
C3_VariantsAgree ==
  (pc = "sorted" /\ MatEdges(mat) = ListEdges(adj)) =>
    (topo_list.isNone <=> topo_mat.isNone)

C3_Witness ==
  /\ pc = "sorted"
  /\ MatEdges(mat) = ListEdges(adj)
  /\ \E i \in 1 .. Len(adj) :
       /\ Len(adj[i][2]) >= 2
       /\ adj[i][2][1][1] > adj[i][2][2][1]
  /\ ~topo_list.isNone
  /\ ~topo_mat.isNone
  /\ topo_list.order # topo_mat.order

\* C4: kahn_list(matrix_to_list(M)) equals kahn_matrix(M), the same order or
\* None in both, and matrix_to_list lists each vertex's targets in ascending
\* column index.
C4_SameOutput ==
  pc = "sorted" =>
    /\ topo_list = topo_mat
    /\ ListEdges(adj) = MatEdges(mat)
    /\ \A i \in 1 .. Len(adj) :
         /\ adj[i][1] = i - 1
         /\ \A j \in 1 .. Len(adj[i][2]) - 1 : adj[i][2][j][1] < adj[i][2][j + 1][1]

C4_Witness ==
  /\ pc = "sorted"
  /\ MatLen(mat) = 3
  /\ Cardinality(MatEdges(mat)) = 3
  /\ ~topo_mat.isNone
  /\ topo_list.order = <<2, 0, 1>>

\* x is p/q rounded to the nearest integer, a tie to the even neighbour.
IsRound(x, p, q) ==
  LET dist == 2 * (x * q - p)
  IN /\ -q <= dist
     /\ dist <= q
     /\ (dist = q \/ dist = -q) => x % 2 = 0

Returned == pc \in {"returned", "converted"}

\* C5: a returned graph has exactly m = round(density * n * (n-1)) edges,
\* 0 <= m <= n(n-1), no edge (u, u) and no pair listed twice.
C5_EdgeCount ==
  Returned =>
    /\ EntryCount(adj_list) = m
    /\ IsRound(m, density[1] * (n * (n - 1)), density[2])
    /\ 0 <= m /\ m <= n * (n - 1)
    /\ \A e \in ListEdges(adj_list) : e[1] # e[2]
    /\ Cardinality(ListEdges(adj_list)) = EntryCount(adj_list)
    /\ DictKeys(adj_list) = [i \in 1 .. n |-> i - 1]

C5_Witness ==
  /\ pc = "returned"
  /\ n = 3
  /\ arg_density = <<1, 4>>
  /\ weighted
  /\ EntryCount(adj_list) = 2

\* C6: in a returned graph, for a weight range with min <= max, v is a target
\* in adj_list[u] exactly when adj_matrix[u][v] is nonzero, and the matrix
\* entry of a weighted edge is the weight stored in the list.
C6_SameEdgeSet ==
  (Returned /\ weight_range[1] <= weight_range[2]) =>
    /\ ListEdges(adj_list) = MatEdges(adj_matrix)
    /\ weighted =>
         \A i \in 1 .. Len(adj_list) : \A j \in 1 .. Len(adj_list[i][2]) :
           adj_matrix[adj_list[i][1]][adj_list[i][2][j][1]] = adj_list[i][2][j][2]

\* C7: list_to_matrix(matrix_to_list(M), n) equals the generated M entry for
\* entry, weights included, and matrix_to_list(list_to_matrix(L, n)) has the
\* edge set of the generated L.
C7_ConvertersInverse ==
  pc = "converted" =>
    /\ out_matrix.raised = "" /\ out_matrix.value = adj_matrix
    /\ out_list.raised = "" /\ ListEdges(out_list.value) = ListEdges(adj_list)

\* C8: with min > max in the weight range the call fails before any edge is
\* sampled and returns no graph, whatever n, density and the weighted flag.
C8_BadRangeFailsFast ==
  weight_range[1] > weight_range[2] =>
    /\ pc \in {"call", "raised"}
    /\ edges = {}
    /\ adj_list = <<>>

Fraction(d) == IF d[1] > d[2] THEN <<d[1], 100 * d[2]>> ELSE d

DensityRejected == raised = "ValueError: density"

\* C9: a density above 1 is divided by 100, so a percent value d in (1, 100]
\* gives the edge target of the fraction d/100; the call is rejected, with no
\* graph, exactly on a negative density or one above 100.
C9_DensityNormalization ==
  pc # "call" =>
    /\ DensityRejected <=> (arg_density[1] < 0 \/ arg_density[1] > 100 * arg_density[2])
    /\ DensityRejected => pc = "raised" /\ edges = {} /\ adj_list = <<>> /\ adj_matrix = <<>>
    /\ ~DensityRejected =>
         /\ density = Fraction(arg_density)
         /\ m = EdgeTarget(n, Fraction(arg_density))
         /\ IsRound(m, Fraction(arg_density)[1] * (n * (n - 1)), Fraction(arg_density)[2])

C9_Witness ==
  /\ pc = "sample"
  /\ arg_density = <<50, 1>>
  /\ density = <<50, 100>>
  /\ n = 3
  /\ m = 3

ListMalformed(d, k) == \E e \in ListEdges(d) : e[1] \notin Range(k) \/ e[2] \notin Range(k)

NotSquare(a) == \E u \in DOMAIN a : MatLen(a[u]) # MatLen(a)

\* C10: list_to_matrix signals an error whenever a source or target index is
\* outside 0..n-1, negative ones included, and matrix_to_list whenever the
\* matrix is not square.
C10_MalformedInputRejected ==
  /\ (pc = "list_converted" /\ ListMalformed(adj, n)) => out_matrix.raised # ""
  /\ (pc = "matrix_converted" /\ NotSquare(mat)) => out_list.raised # ""

Called == pc \in {"list_loop", "matrix_loop", "sorted", "resorted", "converted"}

\* C11: kahn_list, kahn_matrix, list_to_matrix and matrix_to_list leave their
\* argument as it was before the call, whatever they return, and a second
\* call of a sorter on it returns what the first call returned.
C11_InputUnchanged ==
  /\ Called => adj = arg_adj /\ mat = arg_mat
  /\ pc \in {"resorted", "converted"} =>
       /\ again_list = topo_list
       /\ again_mat = topo_mat

C11_Witness ==
  /\ pc = "converted"
  /\ Len(adj) = 3
  /\ EntryCount(adj) = 3
  /\ ~topo_list.isNone
  /\ again_list.order = <<0, 2, 1>>
  /\ out_matrix.raised = ""
  /\ out_list.raised = ""

GrowsByOne ==
  \/ edges' = edges
  \/ \E e \in (Range(n) \X Range(n)) \ edges : edges' = edges \cup {e}

\* C12: under fair draws the sampling loop ends holding exactly m accepted
\* pairs; the accepted set only grows, one pair per accepting iteration, and
\* never exceeds m; with n <= 1 the target is 0 and no candidate is drawn.
C12_SamplingCompletes ==
  /\ [](Cardinality(edges) <= m)
  /\ [](n <= 1 => m = 0 /\ edges = {} /\ ~ENABLED Sample)
  /\ [][GrowsByOne]_vars
  /\ (pc = "sample") ~> (pc # "sample" /\ Cardinality(edges) = m)

C12_Witness ==
  /\ pc = "returned"
  /\ n = 3
  /\ m = 3
  /\ Cardinality(edges) = 3

Elems(t) == {t[i] : i \in 1 .. Len(t)}

NoRepeat(t) == \A i, j \in 1 .. Len(t) : i # j => t[i] # t[j]

\* The list entries that name w and sit under a key not yet dequeued.
PendingListEdges(d, done, w) ==
  {p \in UNION {{<<i, j>> : j \in 1 .. Len(d[i][2])} : i \in 1 .. Len(d)} :
     d[p[1]][1] \notin done /\ d[p[1]][2][p[2]][1] = w}

PendingMatEdges(a, done, w) == {u \in (DOMAIN a) \ done : a[u][w] # 0}

LoopInvariant(st, V, k) ==
  /\ \A w \in V : st.indegree[w] >= 0
  /\ \A v \in Elems(st.q) \cup Elems(st.topo) : v \in V /\ st.indegree[v] = 0
  /\ NoRepeat(st.topo \o st.q)
  /\ Len(st.topo) <= k

ListRunning == pc \in {"list_loop", "matrix_loop", "sorted", "resorted", "converted"}

MatrixRunning == pc \in {"matrix_loop", "sorted", "resorted", "converted"}

\* C13: between the iterations of either while loop, indegree[w] is >= 0 and
\* counts the edges into w whose source is not yet dequeued; only vertices of
\* indegree 0 are in the queue or the output; no vertex is enqueued twice,
\* so the output has no repeat and at most n vertices, after at most n
\* dequeues.
C13_LoopInvariant ==
  /\ ListRunning =>
       /\ LoopInvariant(st_list, KeySet(adj), Len(adj))
       /\ \A w \in KeySet(adj) :
            st_list.indegree[w] = Cardinality(PendingListEdges(adj, Elems(st_list.topo), w))
  /\ MatrixRunning =>
       /\ LoopInvariant(st_mat, DOMAIN mat, MatLen(mat))
       /\ \A w \in DOMAIN mat :
            st_mat.indegree[w] = Cardinality(PendingMatEdges(mat, Elems(st_mat.topo), w))

C13_Witness ==
  /\ pc = "matrix_loop"
  /\ MatLen(mat) = 3
  /\ Len(st_mat.topo) = 1
  /\ st_mat.q # <<>>
  /\ \E w \in DOMAIN mat : st_mat.indegree[w] = 1
  /\ st_list.q = <<>>
  /\ Len(st_list.topo) = 3

====
